---- MODULE Spec2Model ----
(***************************************************************************)
(* OpenBeta Parquet Exporter (export.py): the sequential run of main():    *)
(* root enumeration of countries, the per-country fetch with the split     *)
(* into sub-regions, the record normalisation done while flattening a      *)
(* response, the region filter and the export through a staged JSON file.  *)
(* The GraphQL endpoint is the environment: each network call draws its    *)
(* response from the responses the code distinguishes.                     *)
(***************************************************************************)
EXTENDS Integers, Sequences, FiniteSets, Bags, TLC

\* ---------------------------------------------------------------- bounds
\* Longest list of countries the root enumeration returns.
MaxCountries == 2
\* Longest list of children a sub-region enumeration returns.
MaxChildren == 2
\* Largest number of leaf areas in one region response.
MaxAreas == 2

\* ------------------------------------------------------- program constants
LARGE_COUNTRIES == {"USA", "Canada"}

\* ------------------------------------------------- the source's name spaces
\* Names the root enumeration may return (areaName of a country).
CountryNames == {"USA", "France", "Spain"}
\* Names a children enumeration may return (areaName of a child).
SubNames == {"North", "South", "West"}
\* Region sets config.yaml may configure (export.regions); {} is unset/empty.
RegionSets == {{}, {"France"}}
\* HTTP statuses other than 200 that the endpoint answers with.
ErrorStatuses == {500, 502, 504}

\* Sequences over S without repetition, of length at most n: the names of the
\* sibling nodes of one level of the hierarchy.
DistinctSeqs(S, n) ==
    {s \in UNION {[1..k -> S] : k \in 0..n} :
        \A a, b \in DOMAIN s : a # b => s[a] # s[b]}

\* ------------------------------------------------------------ JSON values
\* An optional JSON number: <<>> is null / key absent, <<v>> is the number v.
None == <<>>
Some(v) == <<v>>
\* Python truthiness of an optional number: None and 0 are falsy.
Truthy(o) == o # None /\ o[1] # 0

\* "metadata" of an area or climb: <<>> when the key is absent, else a
\* one-element sequence holding the dict {lat, lng}.
NoMetadata == <<>>
Metadata(lat, lng) == <<[lat |-> lat, lng |-> lng]>>
\* x.get("metadata", {}).get("lat")
GetLat(md) == IF md = NoMetadata THEN None ELSE md[1].lat
GetLng(md) == IF md = NoMetadata THEN None ELSE md[1].lng

Climb(uuid, pathTokens, metadata) ==
    [uuid |-> uuid, pathTokens |-> pathTokens, metadata |-> metadata]
Area(pathTokens, metadata, climbs) ==
    [pathTokens |-> pathTokens, metadata |-> metadata, climbs |-> climbs]

\* The k-th leaf area the source holds under partition key `tokens`. The
\* shapes cover the cases the flattening distinguishes: climbs with and
\* without their own pathTokens and coordinates (absent, null, 0, non-zero),
\* under areas with and without pathTokens and coordinates (absent, 0,
\* non-zero); countries and sub-regions start at different shapes.
SourceArea(tokens, k) ==
    IF (k + Len(tokens) - 1) % 3 = 1 THEN
        Area(Append(tokens, "Crag"), Metadata(Some(45), Some(-122)),
             << Climb(<<tokens, k, 1>>, <<>>, NoMetadata),
                Climb(<<tokens, k, 2>>, Append(tokens, "Wall"),
                      Metadata(Some(0), Some(7))),
                Climb(<<tokens, k, 3>>, Append(tokens, "Slab"),
                      Metadata(Some(10), Some(20))) >>)
    ELSE IF (k + Len(tokens) - 1) % 3 = 2 THEN
        Area(<<>>, NoMetadata,
             << Climb(<<tokens, k, 1>>, <<>>, Metadata(None, None)),
                Climb(<<tokens, k, 2>>, Append(tokens, "Wall"),
                      Metadata(Some(0), Some(7))) >>)
    ELSE
        Area(Append(tokens, "Boulder"), Metadata(Some(0), Some(0)),
             << Climb(<<tokens, k, 1>>, Append(tokens, "Boulder"),
                      Metadata(Some(10), Some(20))),
                Climb(<<tokens, k, 2>>, <<>>, NoMetadata) >>)

\* The number of leaf areas the source holds under a partition key: regions
\* without any climbing area exist at both levels of the hierarchy.
NumAreas(tokens) ==
    IF tokens[Len(tokens)] \in {"Spain", "West"} THEN 0 ELSE MaxAreas

\* data.areas of a successful response to AREAS_QUERY for the key.
SourceAreas(tokens) == [k \in 1..NumAreas(tokens) |-> SourceArea(tokens, k)]

\* --------------------------------------------------------------- responses
\* What requests.post yields: t = "Timeout" (requests.Timeout raised),
\* "Exception" (any other exception, e.g. a connection error), or "http" with
\* a status and a body; json = "invalid" (response.json() raises), "errors"
\* (the body has an errors key, with or without data beside it), "nodata"
\* (neither errors nor data), "data" (data alone); payload is the data.
Resp(t, status, json, payload) ==
    [t |-> t, status |-> status, json |-> json, payload |-> payload]

\* Error values returned by fetch_region_climbs: None, a status code, or the
\* string "GraphQL Error".
NoError == [tag |-> "None", code |-> 0]
StatusError(s) == [tag |-> "status", code |-> s]
GraphQLError == [tag |-> "GraphQL Error", code |-> 0]


\* ------------------------------------------- fetch_region_climbs (122-159)
\* Mutant: the area's pathTokens are put in front of the climb's own.
InheritPathTokens_Prepend(climb, area) ==
    [climb EXCEPT !.pathTokens = area.pathTokens \o climb.pathTokens]

\* Lines 148-149: a climb without pathTokens takes the area's.
InheritPathTokens(climb, area) ==
    IF climb.pathTokens = <<>>
    THEN [climb EXCEPT !.pathTokens = area.pathTokens]
    ELSE climb

\* Lines 152-155: a climb whose lat is falsy takes lat and lng of an area
\* whose lat is truthy; setdefault creates the metadata dict when absent.
InheritCoordinates(climb, area) ==
    IF ~Truthy(GetLat(climb.metadata)) /\ Truthy(GetLat(area.metadata))
    THEN [climb EXCEPT !.metadata =
              Metadata(GetLat(area.metadata), GetLng(area.metadata))]
    ELSE climb

\* Lines 146-157: the body of the inner loop for one climb of one area.
NormalizeClimb(climb, area) ==
    InheritCoordinates(InheritPathTokens(climb, area), area)

\* Lines 146-157: the climbs of one area, normalised, in order.
AreaClimbs(area) ==
    [n \in 1..Len(area.climbs) |-> NormalizeClimb(area.climbs[n], area)]

\* Lines 145-155 change the climb dicts in place: the areas of the response
\* as they are once the loops have run, each holding its normalised climbs.
NormalizedAreas(areas) ==
    [k \in DOMAIN areas |-> [areas[k] EXCEPT !.climbs = AreaClimbs(areas[k])]]

\* Lines 142-157: the climbs of all areas, flattened in response order.
RECURSIVE Flatten(_)
Flatten(areas) ==
    IF areas = <<>> THEN <<>>
    ELSE AreaClimbs(Head(areas)) \o Flatten(Tail(areas))

\* What one call of fetch_region_climbs does with the response r: it raises
\* (raised, with the exception's kind), or returns (climbs, error).
FetchReturn(climbs, error) ==
    [raised |-> FALSE, exc |-> "", climbs |-> climbs, error |-> error]
FetchRaise(exc) ==
    [raised |-> TRUE, exc |-> exc, climbs |-> <<>>, error |-> NoError]

\* Mutant: the check for "errors" in the body is missing, the data beside
\* the errors is returned.
FetchRegionClimbs_IgnoreErrors(r) ==
    IF r.t = "Timeout" THEN FetchReturn(<<>>, StatusError(504))
    ELSE IF r.t = "Exception" THEN FetchRaise("RequestException")
    ELSE IF r.status # 200 THEN FetchReturn(<<>>, StatusError(r.status))
    ELSE IF r.json = "invalid" THEN FetchRaise("JSONDecodeError")
    ELSE IF r.json = "nodata" THEN FetchReturn(<<>>, NoError)
    ELSE FetchReturn(Flatten(r.payload), NoError)

\* Mutant: a non-200 status raises (response.raise_for_status()).
FetchRegionClimbs_RaiseForStatus(r) ==
    IF r.t = "Timeout" THEN FetchReturn(<<>>, StatusError(504))
    ELSE IF r.t = "Exception" THEN FetchRaise("RequestException")
    ELSE IF r.status # 200 THEN FetchRaise("HTTPError")
    ELSE IF r.json = "invalid" THEN FetchRaise("JSONDecodeError")
    ELSE IF r.json = "errors" THEN FetchReturn(<<>>, GraphQLError)
    ELSE IF r.json = "nodata" THEN FetchReturn(<<>>, NoError)
    ELSE FetchReturn(Flatten(r.payload), NoError)

FetchRegionClimbs(r) ==
    IF r.t = "Timeout" THEN FetchReturn(<<>>, StatusError(504))
    ELSE IF r.t = "Exception" THEN FetchRaise("RequestException")
    ELSE IF r.status # 200 THEN FetchReturn(<<>>, StatusError(r.status))
    ELSE IF r.json = "invalid" THEN FetchRaise("JSONDecodeError")
    ELSE IF r.json = "errors" THEN FetchReturn(<<>>, GraphQLError)
    ELSE IF r.json = "nodata" THEN FetchReturn(<<>>, NoError)
    ELSE FetchReturn(Flatten(r.payload), NoError)

\* The responses the endpoint may give to AREAS_QUERY for `tokens`.
FetchResponses(tokens) ==
    {Resp("Timeout", 0, "none", <<>>), Resp("Exception", 0, "none", <<>>)}
    \cup {Resp("http", s, "none", <<>>) : s \in ErrorStatuses}
    \cup {Resp("http", 200, j, <<>>) : j \in {"invalid", "nodata"}}
    \cup {Resp("http", 200, j, SourceAreas(tokens)) : j \in {"errors", "data"}}

\* ---------------------------------------------- fetch_subregions (94-120)
\* Mutant: without children the country itself is returned as its only key.
FetchSubregions_FallbackWhole(country, r) ==
    IF r.t # "http" \/ r.status # 200 \/ r.json # "data" \/ r.payload = <<>>
    THEN << <<country>> >>
    ELSE [k \in 1..Len(r.payload) |-> <<country, r.payload[k]>>]

\* Mutant: the keys are built without the country in front.
FetchSubregions_NoPrefix(country, r) ==
    IF r.t # "http" \/ r.status # 200 \/ r.json # "data" THEN <<>>
    ELSE [k \in 1..Len(r.payload) |-> <<r.payload[k]>>]

\* Every failure (status, GraphQL errors, timeout, any exception) yields [];
\* otherwise one key [country, child] per child, in response order.
FetchSubregions(country, r) ==
    IF r.t # "http" THEN <<>>
    ELSE IF r.status # 200 THEN <<>>
    ELSE IF r.json # "data" THEN <<>>
    ELSE [k \in 1..Len(r.payload) |-> <<country, r.payload[k]>>]

\* The responses the endpoint may give to SUBREGIONS_QUERY.
SubregionResponses ==
    {Resp("Timeout", 0, "none", <<>>), Resp("Exception", 0, "none", <<>>)}
    \cup {Resp("http", s, "none", <<>>) : s \in ErrorStatuses}
    \cup {Resp("http", 200, j, <<>>) : j \in {"invalid", "nodata"}}
    \cup {Resp("http", 200, j, ch) :
              j \in {"errors", "data"}, ch \in DistinctSeqs(SubNames, MaxChildren)}

\* ------------------------------------- root enumeration (192-206 of
\* fetch_all_climbs): raises, or yields the (areaName, uuid) pairs.
CountryUuid(name) == <<"uuid", name>>
CountryEntry(name) == [areaName |-> name, uuid |-> CountryUuid(name)]

RootReturn(cs) == [raised |-> FALSE, exc |-> "", countries |-> cs]
RootRaise(exc) == [raised |-> TRUE, exc |-> exc, countries |-> <<>>]

\* Mutant: the check for "errors" in the body is missing.
ListTopLevelKeys_IgnoreErrors(r) ==
    IF r.t # "http" THEN RootRaise("RequestException")
    ELSE IF r.status # 200 THEN RootRaise("Countries query failed")
    ELSE IF r.json = "invalid" THEN RootRaise("JSONDecodeError")
    ELSE IF r.json = "malformed" THEN RootRaise("KeyError")
    ELSE IF r.json = "nodata" THEN RootReturn(<<>>)
    ELSE RootReturn(r.payload)

ListTopLevelKeys(r) ==
    IF r.t # "http" THEN RootRaise("RequestException")
    ELSE IF r.status # 200 THEN RootRaise("Countries query failed")
    ELSE IF r.json = "invalid" THEN RootRaise("JSONDecodeError")
    ELSE IF r.json = "errors" THEN RootRaise("GraphQL errors")
    ELSE IF r.json = "malformed" THEN RootRaise("KeyError")
    ELSE IF r.json = "nodata" THEN RootReturn(<<>>)
    ELSE RootReturn(r.payload)

\* The responses the endpoint may give to COUNTRIES_QUERY; "malformed" is a
\* body whose data is null or whose entries lack areaName or uuid.
RootResponses ==
    {Resp("Timeout", 0, "none", <<>>), Resp("Exception", 0, "none", <<>>)}
    \cup {Resp("http", s, "none", <<>>) : s \in ErrorStatuses}
    \cup {Resp("http", 200, j, <<>>) : j \in {"invalid", "malformed", "nodata"}}
    \cup {Resp("http", 200, j, [k \in DOMAIN cs |-> CountryEntry(cs[k])]) :
              j \in {"errors", "data"},
              cs \in DistinctSeqs(CountryNames, MaxCountries)}

\* ------------------------------------------------ filter_climbs (239-247)
\* Mutant: the test for an empty pathTokens lets the record through.
KeepClimb_KeepsEmpty(c, regions) ==
    c.pathTokens = <<>> \/ c.pathTokens[1] \in regions

\* Line 245: c.get("pathTokens") and c["pathTokens"][0] in regions.
KeepClimb(c, regions) == c.pathTokens # <<>> /\ c.pathTokens[1] \in regions

FilterClimbs(cs, regions) ==
    IF regions = {} THEN cs
    ELSE SelectSeq(cs, LAMBDA c : KeepClimb(c, regions))


\* ------------------------------------------------------------------ state
VARIABLES
    pc,            \* position of main(): "load_config", "enumerate", "country", "subregions",
                   \* "subregion", "split_return", "fetched", "export",
                   \* "export_load", "export_write", "export_report", "exit"
    config,        \* config.yaml as loaded: [regions |-> export.regions]
    countries,     \* fetch_all_climbs: the (areaName, uuid) pairs enumerated
    i,             \* fetch_all_climbs: index of the country being processed
    all_climbs,    \* fetch_all_climbs: the accumulator
    subregions,    \* fetch_country_via_subregions: the keys to fetch
    j,             \* fetch_country_via_subregions: index of the sub-region
    climbs,        \* fetch_country_via_subregions: the country's accumulator
    main_climbs,   \* main: climbs, after the fetch and after the filter
    exitCode,      \* <<status>> of the process once pc = "exit"; <<>> before
    stdout,        \* the last line printed after the banner, without the
                   \* numbers and names it shows
    traceback,     \* the exception main caught: raising function and kind
    tmpExists,     \* export_to_parquet: the staged JSON file exists on disk
    parquetWritten,\* export_to_parquet: the COPY ... TO parquet has run
    statsWritten,  \* export_to_parquet: export-stats.json has been written
    exportInvoked, \* export_to_parquet has been called in this run
    rootResp,      \* history: the response to COUNTRIES_QUERY
    wholeBranch,   \* history: per country, the branch lines 224-234 took
    subResults,    \* history: per sub-region fetch of the split, its key,
                   \* the climbs it returned and whether line 177 saw an error
    lastFetch,     \* history: key, error and climbs of the latest fetch
    calls,         \* history: the network calls made since the loop reached
                   \* the country last processed, in order: [op, key]
    wholeCalls,    \* history: bag of the countries c for which
                   \* fetch_region_climbs([c]) was called
    listCalls      \* history: bag of the uuids passed to fetch_subregions

mainVars == <<pc, config, main_climbs, exitCode, stdout, traceback>>
loopVars == <<countries, i, all_climbs>>
splitVars == <<subregions, j, climbs>>
exportVars == <<tmpExists, parquetWritten, statsWritten, exportInvoked>>
historyVars ==
    <<rootResp, wholeBranch, subResults, lastFetch, calls, wholeCalls,
      listCalls>>
vars == <<mainVars, loopVars, splitVars, exportVars, historyVars>>

Running == <<>>
NoTraceback == [func |-> "", exc |-> ""]
NoResponse == Resp("none", 0, "none", <<>>)
NoFetch == [key |-> <<>>, error |-> [tag |-> "None", code |-> 0], climbs |-> <<>>]

Unloaded == [regions |-> {}]

Init ==
    /\ pc = "load_config"
    /\ config = Unloaded
    /\ countries = <<>>
    /\ i = 0
    /\ all_climbs = <<>>
    /\ subregions = <<>>
    /\ j = 0
    /\ climbs = <<>>
    /\ main_climbs = <<>>
    /\ exitCode = Running
    /\ stdout = ""
    /\ traceback = NoTraceback
    /\ tmpExists = FALSE
    /\ parquetWritten = FALSE
    /\ statsWritten = FALSE
    /\ exportInvoked = FALSE
    /\ rootResp = NoResponse
    /\ wholeBranch = [c \in CountryNames \cup LARGE_COUNTRIES |-> "unfetched"]
    /\ lastFetch = NoFetch
    /\ subResults = <<>>
    /\ calls = <<>>
    /\ wholeCalls = EmptyBag
    /\ listCalls = EmptyBag

\* sys.exit(code) from main (lines 337, 344), or falling off its end (349).
Exit(code, line) ==
    /\ pc' = "exit"
    /\ exitCode' = <<code>>
    /\ stdout' = line
    /\ traceback' = NoTraceback

\* Lines 351-355: an exception raised in `func` reaches main's handler.
Fail(func, exc) ==
    /\ pc' = "exit"
    /\ exitCode' = <<1>>
    /\ stdout' = "ERROR: Export failed"
    /\ traceback' = [func |-> func, exc |-> exc]

\* ---------------------------------------------------- fetch_all_climbs
\* Mutant: the membership test compares against lower-cased names.
IsLargeCountry_LowerCase(country) == country \in {"usa", "canada"}

\* Line 215: country in LARGE_COUNTRIES.
IsLargeCountry(country) == country \in LARGE_COUNTRIES

\* Mutant: only the status 504 is taken as a reason to split.
ShouldSplit_Only504(error) == error.tag = "status" /\ error.code = 504

\* Mutant: every error is taken as a reason to split.
ShouldSplit_AnyError(error) == error.tag # "None"

\* Line 224: error in [502, 504].
ShouldSplit(error) == error.tag = "status" /\ error.code \in {502, 504}

\* Lines 177, 230: the truth value of an error (None is falsy).
IsError(error) == error.tag # "None"

\* Mutant: the sub-region's climbs are put in front of the country's.
SubContribution_Prepend(cs, sub_climbs, sub_error) ==
    IF sub_error.tag # "None" THEN cs ELSE sub_climbs \o cs

\* Mutant: `climbs = sub_climbs` in place of climbs.extend(sub_climbs).
SubContribution_Assign(cs, sub_climbs, sub_error) ==
    IF sub_error.tag # "None" THEN cs ELSE sub_climbs

\* Lines 177-181: what one sub-region fetch adds to the country's climbs.
SubContribution(cs, sub_climbs, sub_error) ==
    IF IsError(sub_error) THEN cs ELSE cs \o sub_climbs

\* Mutant: a failed fetch is tried again instead of moving on.
NextSubregion_Retry(k, sub_error) ==
    IF sub_error.tag # "None" THEN k ELSE k + 1

\* Mutant: `break` in place of `continue` after a failed fetch.
NextSubregion_Break(k, sub_error) ==
    IF sub_error.tag # "None" THEN k + MaxChildren + 1 ELSE k + 1

\* Mutant: the loop steps over every second sub-region.
NextSubregion_Skip(k, sub_error) == k + 2

\* Lines 173, 179: the for loop moves on after a fetch, failed or not.
NextSubregion(k, sub_error) == k + 1

\* Mutant: the emptiness checks are gone.
NoClimbs_Never(cs) == FALSE

\* Lines 335, 342: `if not climbs`.
NoClimbs(cs) == cs = <<>>

Country == countries[i].areaName

\* Entries of the call log: requests.post with AREAS_QUERY for the tokens
\* (line 125), with SUBREGIONS_QUERY for the uuid (line 97) and the keys
\* fetch_subregions made of the answer.
FetchCall(tokens) == [op |-> "fetch", key |-> tokens, children |-> <<>>]
ListCall(uuid, subs) == [op |-> "list", key |-> uuid, children |-> subs]

\* Lines 328-330: load_config and config["export"]["api_url"]; a missing or
\* ill-formed config.yaml raises.
LoadConfig ==
    /\ pc = "load_config"
    /\ \/ /\ config' \in {[regions |-> rs] : rs \in RegionSets}
          /\ pc' = "enumerate"
          /\ UNCHANGED <<exitCode, stdout, traceback>>
       \/ /\ Fail("load_config", "Exception")
          /\ UNCHANGED config
    /\ UNCHANGED <<main_climbs, loopVars, splitVars, exportVars, historyVars>>

\* Lines 192-209: the root enumeration; a raise reaches main's handler.
Enumerate ==
    /\ pc = "enumerate"
    /\ \E r \in RootResponses :
        LET res == ListTopLevelKeys(r) IN
        /\ rootResp' = Resp(r.t, r.status, r.json, <<>>)
        /\ IF res.raised
           THEN /\ Fail("fetch_all_climbs", res.exc)
                /\ UNCHANGED loopVars
           ELSE /\ countries' = res.countries
                /\ i' = 1
                /\ pc' = "country"
                /\ stdout' = "Found countries"
                /\ UNCHANGED <<all_climbs, exitCode, traceback>>
    /\ UNCHANGED <<config, main_climbs, splitVars, exportVars, wholeBranch,
                   subResults, lastFetch, calls, wholeCalls, listCalls>>

\* Lines 221-234: the whole-country fetch of a country not known as large.
FetchCountry ==
    /\ pc = "country"
    /\ i <= Len(countries)
    /\ ~IsLargeCountry(Country)
    /\ \E r \in FetchResponses(<<Country>>) :
        LET res == FetchRegionClimbs(r) IN
        /\ calls' = <<FetchCall(<<Country>>)>>
        /\ wholeCalls' = wholeCalls (+) SetToBag({Country})
        /\ IF res.raised
           THEN /\ Fail("fetch_region_climbs", res.exc)
                /\ UNCHANGED <<i, all_climbs, wholeBranch, lastFetch>>
           ELSE /\ lastFetch' = [key |-> <<Country>>, error |-> res.error,
                                 climbs |-> res.climbs]
                /\ UNCHANGED <<exitCode, traceback>>
                /\ IF ShouldSplit(res.error)
                   THEN /\ pc' = "subregions"
                        /\ wholeBranch' = [wholeBranch EXCEPT ![Country] = "split"]
                        /\ stdout' = "NOTE: Consider adding to LARGE_COUNTRIES"
                        /\ UNCHANGED <<i, all_climbs>>
                   ELSE IF IsError(res.error)
                   THEN /\ pc' = "country"
                        /\ wholeBranch' = [wholeBranch EXCEPT ![Country] = "warning"]
                        /\ stdout' = "WARNING: Failed to fetch"
                        /\ i' = i + 1
                        /\ UNCHANGED all_climbs
                   ELSE /\ pc' = "country"
                        /\ wholeBranch' = [wholeBranch EXCEPT ![Country] = "extend"]
                        /\ stdout' = "climbs"
                        /\ i' = i + 1
                        /\ all_climbs' = all_climbs \o res.climbs
    /\ UNCHANGED <<config, main_climbs, countries, splitVars, exportVars,
                   rootResp, subResults, listCalls>>

\* Lines 163-171, called from 217 (large country) or 228 (after 502/504):
\* the children enumeration; no children ends the country with no records.
ListChildren ==
    /\ \/ pc = "country" /\ i <= Len(countries) /\ IsLargeCountry(Country)
       \/ pc = "subregions"
    /\ \E r \in SubregionResponses :
        LET subs == FetchSubregions(Country, r) IN
        /\ listCalls' = listCalls (+) SetToBag({countries[i].uuid})
        /\ calls' = IF pc = "subregions"
                    THEN Append(calls, ListCall(countries[i].uuid, subs))
                    ELSE <<ListCall(countries[i].uuid, subs)>>
        /\ subResults' = <<>>
        /\ IF subs = <<>>
           THEN /\ pc' = "country"
                /\ i' = i + 1
                /\ all_climbs' = all_climbs \o <<>>
                /\ stdout' = "WARNING: Could not fetch sub-regions"
                /\ UNCHANGED splitVars
           ELSE /\ pc' = "subregion"
                /\ subregions' = subs
                /\ j' = 1
                /\ climbs' = <<>>
                /\ stdout' = "Found sub-regions"
                /\ UNCHANGED <<i, all_climbs>>
    /\ UNCHANGED <<config, main_climbs, exitCode, traceback, countries,
                   exportVars, rootResp, wholeBranch, lastFetch, wholeCalls>>

\* Lines 173-183: one iteration of the loop over the sub-regions.
FetchSubregion ==
    /\ pc = "subregion"
    /\ j <= Len(subregions)
    /\ \E r \in FetchResponses(subregions[j]) :
        LET res == FetchRegionClimbs(r) IN
        /\ calls' = Append(calls, FetchCall(subregions[j]))
        /\ IF res.raised
           THEN /\ Fail("fetch_region_climbs", res.exc)
                /\ UNCHANGED <<j, climbs, subResults, lastFetch>>
           ELSE /\ climbs' = SubContribution(climbs, res.climbs, res.error)
                /\ lastFetch' = [key |-> subregions[j], error |-> res.error,
                                 climbs |-> res.climbs]
                /\ subResults' = Append(subResults,
                       [key |-> subregions[j], climbs |-> res.climbs,
                        failed |-> IsError(res.error)])
                /\ j' = NextSubregion(j, res.error)
                /\ pc' = IF j' > Len(subregions)
                         THEN "split_return" ELSE "subregion"
                /\ stdout' = IF IsError(res.error)
                             THEN "WARNING: Failed to fetch" ELSE "climbs"
                /\ UNCHANGED <<exitCode, traceback>>
    /\ UNCHANGED <<config, main_climbs, loopVars, subregions, exportVars,
                   rootResp, wholeBranch, wholeCalls, listCalls>>

\* Lines 185-186 and 218-219 / 229: the split returns the country's climbs,
\* the caller extends the accumulator and the loop moves to the next country.
SplitReturn ==
    /\ pc = "split_return"
    /\ all_climbs' = all_climbs \o climbs
    /\ i' = i + 1
    /\ pc' = "country"
    /\ subregions' = <<>>
    /\ j' = 0
    /\ climbs' = <<>>
    /\ subResults' = <<>>
    /\ stdout' = "total climbs"
    /\ UNCHANGED <<config, main_climbs, exitCode, traceback, countries,
                   exportVars, rootResp, wholeBranch, lastFetch, calls,
                   wholeCalls, listCalls>>

\* Lines 236-237: the loop over the countries is exhausted.
LoopDone ==
    /\ pc = "country"
    /\ i > Len(countries)
    /\ pc' = "fetched"
    /\ stdout' = "Total climbs fetched"
    /\ UNCHANGED <<config, main_climbs, exitCode, traceback, loopVars,
                   splitVars, exportVars, historyVars>>

\* ------------------------------------------------------ main (333-347)
\* The two emptiness checks around filter_climbs.
MainFilter ==
    /\ pc = "fetched"
    /\ IF NoClimbs(all_climbs)
       THEN /\ main_climbs' = all_climbs
            /\ Exit(1, "WARNING: No climbs found!")
       ELSE LET filtered == FilterClimbs(all_climbs, config.regions) IN
            /\ main_climbs' = filtered
            /\ IF NoClimbs(filtered)
               THEN Exit(1, "WARNING: No climbs remained after filtering!")
               ELSE /\ pc' = "export"
                    /\ stdout' = IF config.regions = {}
                                 THEN stdout ELSE "Filtered to regions"
                    /\ UNCHANGED <<exitCode, traceback>>
    /\ UNCHANGED <<config, loopVars, splitVars, exportVars, historyVars>>

\* ------------------------------------------- export_to_parquet (249-319)
\* Lines 251-263: connect, create the staging file, dump the records.
ExportStage ==
    /\ pc = "export"
    /\ exportInvoked' = TRUE
    /\ \E outcome \in {"ok", "connect raises", "dump raises"} :
        /\ tmpExists' = (outcome # "connect raises")
        /\ IF outcome = "ok"
           THEN /\ pc' = "export_load"
                /\ stdout' = "Transforming data with DuckDB..."
                /\ UNCHANGED <<exitCode, traceback>>
           ELSE Fail("export_to_parquet", outcome)
    /\ UNCHANGED <<config, main_climbs, loopVars, splitVars, parquetWritten,
                   statsWritten, historyVars>>

\* Lines 265-273: measure and bulk-load the staged file; finally unlink it.
ExportLoad ==
    /\ pc = "export_load"
    /\ tmpExists' = FALSE
    /\ \E outcome \in {"ok", "stat raises", "load raises"} :
        IF outcome = "ok"
        THEN /\ pc' = "export_write"
             /\ stdout' = "Loaded climbs into DuckDB"
             /\ UNCHANGED <<exitCode, traceback>>
        ELSE Fail("export_to_parquet", outcome)
    /\ UNCHANGED <<config, main_climbs, loopVars, splitVars, parquetWritten,
                   statsWritten, exportInvoked, historyVars>>

\* Lines 275-287: read schema.sql and COPY the projection to the parquet file.
ExportWrite ==
    /\ pc = "export_write"
    /\ \E outcome \in {"ok", "load_schema raises", "copy raises"} :
        IF outcome = "ok"
        THEN /\ parquetWritten' = TRUE
             /\ pc' = "export_report"
             /\ stdout' = "Exporting to"
             /\ UNCHANGED <<exitCode, traceback>>
        ELSE /\ Fail("export_to_parquet", outcome)
             /\ UNCHANGED parquetWritten
    /\ UNCHANGED <<config, main_climbs, loopVars, splitVars, tmpExists,
                   statsWritten, exportInvoked, historyVars>>

\* Lines 289-319 and 349: sizes, export-stats.json, the sample; then success.
ExportReport ==
    /\ pc = "export_report"
    /\ \E outcome \in {"ok", "stats raises", "sample raises"} :
        /\ statsWritten' = (outcome # "stats raises")
        /\ IF outcome = "ok"
           THEN Exit(0, "Export successful!")
           ELSE Fail("export_to_parquet", outcome)
    /\ UNCHANGED <<config, main_climbs, loopVars, splitVars, tmpExists,
                   parquetWritten, exportInvoked, historyVars>>

Next ==
    \/ LoadConfig
    \/ Enumerate
    \/ FetchCountry
    \/ ListChildren
    \/ FetchSubregion
    \/ SplitReturn
    \/ LoopDone
    \/ MainFilter
    \/ ExportStage
    \/ ExportLoad
    \/ ExportWrite
    \/ ExportReport

Spec == Init /\ [][Next]_vars

\* main is one sequential thread: as long as a step is possible it is taken,
\* every network call returning with an answer, a timeout or an exception.
FairSpec == Spec /\ WF_vars(Next)


\* ======================================================== properties
\* Vocabulary of the fetch outcomes: Oversize is a timeout or a 502/504
\* status, HardFailure any other status or a GraphQL error payload.
IsOversize(error) == error.tag = "status" /\ error.code \in {502, 504}
IsHardFailure(error) ==
    \/ error.tag = "GraphQL Error"
    \/ error.tag = "status" /\ error.code \notin {502, 504}

Range(f) == {f[x] : x \in DOMAIN f}
Count(x, bag) == IF x \in DOMAIN bag THEN bag[x] ELSE 0
Uuids(cs) == [n \in DOMAIN cs |-> cs[n].uuid]
NoRepeats(f) == \A a, b \in DOMAIN f : a # b => f[a] # f[b]

\* The climbs returned by the sub-region fetches of the split, concatenated.
RECURSIVE ConcatClimbs(_)
ConcatClimbs(rs) ==
    IF rs = <<>> THEN <<>> ELSE Head(rs).climbs \o ConcatClimbs(Tail(rs))

\* As ConcatClimbs, of the fetches that line 177 did not see fail.
RECURSIVE ConcatSucceeded(_)
ConcatSucceeded(rs) ==
    IF rs = <<>> THEN <<>>
    ELSE (IF Head(rs).failed THEN <<>> ELSE Head(rs).climbs)
         \o ConcatSucceeded(Tail(rs))

\* The uuids of the leaf records the source holds under a key, area by area.
RECURSIVE LeafUuids(_)
LeafUuids(areas) ==
    IF areas = <<>> THEN <<>>
    ELSE Uuids(Head(areas).climbs) \o LeafUuids(Tail(areas))

AllSucceeded == \A k \in DOMAIN subResults : ~subResults[k].failed
InSplit == pc \in {"subregion", "split_return"}

\* C1 (coverage under splitting): when a country is fetched through its
\* sub-regions and each of the N sub-region fetches succeeds, the records the
\* country adds to the accumulator are exactly the N results concatenated in
\* order; each result holds the leaf records of the returned areas exactly
\* once (none lost, none twice), and no record occurs twice in the country.
C1_CoverageUnderSplit ==
    [][ (pc = "split_return" /\ AllSucceeded) =>
          /\ Len(subResults) = Len(subregions)
          /\ \A k \in DOMAIN subResults : subResults[k].key = subregions[k]
          /\ all_climbs' = all_climbs \o ConcatClimbs(subResults)
          /\ \A k \in DOMAIN subResults :
                Uuids(subResults[k].climbs) \in
                    {<<>>, LeafUuids(SourceAreas(subResults[k].key))}
          /\ NoRepeats(Uuids(ConcatClimbs(subResults))) ]_vars

\* Witness of C1: a split of N = MaxChildren sub-regions, all fetched with
\* success and each with records, about to be added to a non-empty accumulator.
C1_Witness ==
    /\ pc = "split_return"
    /\ AllSucceeded
    /\ Len(subResults) >= 2
    /\ \A k \in DOMAIN subResults : subResults[k].climbs # <<>>
    /\ all_climbs # <<>>
    /\ climbs # <<>>

\* The country whose processing is complete at index k of the enumeration.
Processed(c) ==
    \E k \in DOMAIN countries : k < i /\ countries[k].areaName = c

\* C2 (oversize triggers split): for a country whose whole fetch took the
\* 502/504 branch and whose children all fetched with success, the calls made
\* for it are exactly: the whole fetch, one children enumeration, one fetch
\* per child in order; and the whole fetch and the enumeration are never
\* issued again for it in the rest of the run.
C2_OversizeSplitsOnce ==
    /\ (pc = "split_return" /\ wholeBranch[Country] = "split" /\ AllSucceeded) =>
          calls = << FetchCall(<<Country>>),
                     ListCall(CountryUuid(Country), subregions) >>
                  \o [k \in DOMAIN subregions |-> FetchCall(subregions[k])]
    /\ \A c \in CountryNames :
          (wholeBranch[c] = "split" /\ Processed(c)) =>
              /\ Count(c, wholeCalls) = 1
              /\ Count(CountryUuid(c), listCalls) = 1

\* Witness of C2: an oversize country with two children, both fetched with
\* success, at the end of its split.
C2_Witness ==
    /\ pc = "split_return"
    /\ wholeBranch[Country] = "split"
    /\ calls[1] = FetchCall(<<Country>>)
    /\ AllSucceeded
    /\ Len(subregions) = 2

\* C3 (known-large bypass): for a country of LARGE_COUNTRIES the whole-country
\* fetch is never issued, and the first call made for it is the children
\* enumeration.
C3_KnownLargeBypass ==
    \A c \in LARGE_COUNTRIES :
        /\ Count(c, wholeCalls) = 0
        /\ wholeBranch[c] = "unfetched"
        /\ \A k \in DOMAIN calls : calls[k] # FetchCall(<<c>>)
        /\ (\E k \in DOMAIN calls : calls[k].op = "fetch" /\ calls[k].key[1] = c)
              => (calls[1].op = "list" /\ calls[1].key = CountryUuid(c))
        /\ (pc \in {"subregions", "subregion", "split_return"} /\ Country = c)
              => (calls[1].op = "list" /\ calls[1].key = CountryUuid(c))

\* Witness of C3: a known-large country whose sub-regions have been fetched.
C3_Witness ==
    /\ pc = "split_return"
    /\ Country \in LARGE_COUNTRIES
    /\ calls[1].op = "list"
    /\ Len(calls) >= 3


Failed == <<1>>
Succeeded == <<0>>
\* The records of the accumulator that come from country c.
ClimbsOf(c) == SelectSeq(all_climbs, LAMBDA x : x.uuid[1][1] = c)
LastOf(f) == f[Len(f)]

\* C4 (a HardFailure of a whole-country fetch is not fatal): the step in which
\* the whole fetch of a country ends in a status other than 502/504 or in a
\* GraphQL error leaves the accumulator as it was, makes no children
\* enumeration, keeps the run going and moves to the next country; and no
\* enumeration is ever made and no record ever added for such a country.
C4_HardFailureNonFatal ==
    [][ /\ (/\ pc = "country"
            /\ i <= Len(countries)
            /\ lastFetch.key # <<Country>>
            /\ lastFetch'.key = <<Country>>
            /\ IsHardFailure(lastFetch'.error))
           => /\ wholeBranch'[Country] = "warning"
              /\ all_climbs' = all_climbs
              /\ listCalls' = listCalls
              /\ exitCode' = Running
              /\ pc' = "country"
              /\ i' = i + 1
        /\ \A c \in CountryNames :
              wholeBranch'[c] = "warning" =>
                  /\ Count(CountryUuid(c), listCalls') = 0
                  /\ SelectSeq(all_climbs', LAMBDA x : x.uuid[1][1] = c) = <<>>
      ]_vars

\* Witness of C4: the first country failed hard, the loop went on and the
\* second country's records are in the accumulator at the end of the loop.
C4_Witness ==
    /\ pc = "fetched"
    /\ Len(countries) = 2
    /\ wholeBranch[countries[1].areaName] = "warning"
    /\ ClimbsOf(countries[2].areaName) # <<>>
    /\ exitCode = Running

\* C5 (per-subregion failure isolation): a sub-region fetch that ends in
\* Oversize or HardFailure adds nothing, and the loop moves to the next
\* sibling; at the end of the split every sibling has been fetched, the
\* country's climbs are those of the siblings that succeeded, and the return
\* adds them to the accumulator and moves to the next country.
C5_SubregionFailureIsolated ==
    [][ /\ (/\ pc = "subregion"
            /\ Len(subResults') = Len(subResults) + 1
            /\ (IsOversize(lastFetch'.error) \/ IsHardFailure(lastFetch'.error)))
           => /\ LastOf(subResults').failed
              /\ climbs' = climbs
              /\ all_climbs' = all_climbs
              /\ i' = i
              /\ j' = j + 1
              /\ pc' = IF j < Len(subregions) THEN "subregion" ELSE "split_return"
              /\ exitCode' = Running
        /\ pc = "split_return"
           => /\ Len(subResults) = Len(subregions)
              /\ \A k \in DOMAIN subResults : subResults[k].key = subregions[k]
              /\ climbs = ConcatSucceeded(subResults)
              /\ all_climbs' = all_climbs \o ConcatSucceeded(subResults)
              /\ i' = i + 1
              /\ pc' = "country"
              /\ exitCode' = Running
      ]_vars

\* Witness of C5: a split whose first sub-region failed and whose second
\* succeeded with records.
C5_Witness ==
    /\ pc = "split_return"
    /\ Len(subResults) >= 2
    /\ subResults[1].failed
    /\ ~subResults[2].failed
    /\ climbs # <<>>
    /\ climbs = subResults[2].climbs

CountryNamesEnumerated == {countries[k].areaName : k \in DOMAIN countries}
ListEntries == {k \in DOMAIN calls : calls[k].op = "list"}
FetchEntries == {k \in DOMAIN calls : calls[k].op = "fetch"}

\* C6 (subdivision is single-level): every fetch uses a key [country] of an
\* enumerated country or a key [country, child] that the children
\* enumeration of that country returned before; at most one children
\* enumeration is made per country; and a sub-region fetch that ends in
\* Oversize adds no record and is followed by no call of its own.
C6_SingleLevelSplit ==
    /\ \A k \in FetchEntries :
          \/ /\ Len(calls[k].key) = 1
             /\ calls[k].key[1] \in CountryNamesEnumerated
          \/ /\ Len(calls[k].key) = 2
             /\ \E m \in ListEntries :
                   /\ m < k
                   /\ calls[m].key = CountryUuid(calls[k].key[1])
                   /\ calls[k].key \in Range(calls[m].children)
    /\ Cardinality(ListEntries) <= 1
    /\ \A c \in CountryNames : Count(CountryUuid(c), listCalls) <= 1
    /\ (/\ InSplit
        /\ subResults # <<>>
        /\ lastFetch.key = LastOf(subResults).key
        /\ IsOversize(lastFetch.error))
       => /\ LastOf(subResults).failed
          /\ climbs = ConcatSucceeded(subResults)
          /\ climbs = ConcatSucceeded(SubSeq(subResults, 1, Len(subResults) - 1))
          /\ LastOf(calls) = FetchCall(lastFetch.key)

\* Witness of C6: the last sub-region of a split has just ended in Oversize.
C6_Witness ==
    /\ pc = "split_return"
    /\ Len(subResults) >= 2
    /\ lastFetch.key = LastOf(subResults).key
    /\ IsOversize(lastFetch.error)
    /\ Len(lastFetch.key) = 2

RootFailed ==
    /\ rootResp.t # "none"
    /\ ~(rootResp.t = "http" /\ rootResp.status = 200 /\ rootResp.json = "data")

\* C8 (root enumeration failure aborts the run): after a failed root
\* enumeration no region fetch and no children enumeration is ever issued,
\* the export is never attempted, and the run can only end with exit code 1.
C8_RootFailureAborts ==
    RootFailed =>
        /\ calls = <<>>
        /\ wholeCalls = EmptyBag
        /\ listCalls = EmptyBag
        /\ ~exportInvoked
        /\ ~parquetWritten
        /\ countries = <<>>
        /\ all_climbs = <<>>
        /\ pc \in {"exit", "country", "fetched"}
        /\ exitCode # Succeeded
        /\ pc = "exit" => exitCode = Failed

\* Witness of C8: the run has ended in failure after a 200 answer whose body
\* carried GraphQL errors.
C8_Witness ==
    /\ pc = "exit"
    /\ exitCode = Failed
    /\ rootResp.status = 200
    /\ rootResp.json = "errors"

\* No record of the accumulator passes the configured region filter.
NoneKept ==
    /\ config.regions # {}
    /\ \A k \in DOMAIN all_climbs :
          \/ all_climbs[k].pathTokens = <<>>
          \/ all_climbs[k].pathTokens[1] \notin config.regions

\* C9 (empty-result termination): export_to_parquet is only ever invoked with
\* a non-empty record set, and a run that ends with an empty accumulator, or
\* with no record passing the filter, ends with exit code 1 and no export.
C9_EmptyResultTerminates ==
    /\ exportInvoked => (all_climbs # <<>> /\ main_climbs # <<>> /\ ~NoneKept)
    /\ (pc = "exit" /\ (all_climbs = <<>> \/ NoneKept))
          => (exitCode = Failed /\ ~exportInvoked /\ ~parquetWritten)

\* Witness of C9: records were fetched, none passed the filter, the run failed.
C9_Witness ==
    /\ pc = "exit"
    /\ all_climbs # <<>>
    /\ NoneKept
    /\ exitCode = Failed
    /\ stdout = "WARNING: No climbs remained after filtering!"

EmptySetExit ==
    \/ stdout = "WARNING: No climbs found!" /\ all_climbs = <<>>
    \/ stdout = "WARNING: No climbs remained after filtering!" /\ main_climbs = <<>>

KeptIndices(cs, regions) ==
    {k \in DOMAIN cs :
        cs[k].pathTokens # <<>> /\ cs[k].pathTokens[1] \in regions}

\* out is cs restricted to the positions K, in order, records untouched.
IsRestriction(out, cs, K) ==
    /\ Len(out) = Cardinality(K)
    /\ \A k \in K : out[Cardinality({m \in K : m <= k})] = cs[k]

\* C11 (filter correctness): the step of main that filters leaves in
\* main_climbs, for a non-empty region set, exactly the records of the
\* accumulator whose PartitionKey is non-empty and starts with a member of the
\* set, in their order and unmodified; for an empty or unset region set, the
\* accumulator unchanged.
C11_FilterCorrect ==
    [][ pc = "fetched" =>
          /\ all_climbs' = all_climbs
          /\ IF config.regions = {}
             THEN main_climbs' = all_climbs
             ELSE IsRestriction(main_climbs', all_climbs,
                                KeptIndices(all_climbs, config.regions)) ]_vars

\* Witness of C11: a filtered record set that kept some records and dropped
\* both a record without PartitionKey and a record of another region.
C11_Witness ==
    /\ pc = "export"
    /\ config.regions # {}
    /\ main_climbs # <<>>
    /\ \E k \in DOMAIN all_climbs : all_climbs[k].pathTokens = <<>>
    /\ \E k \in DOMAIN all_climbs :
          /\ all_climbs[k].pathTokens # <<>>
          /\ all_climbs[k].pathTokens[1] \notin config.regions
    /\ \A k \in DOMAIN main_climbs :
          /\ main_climbs[k].pathTokens # <<>>
          /\ main_climbs[k].pathTokens[1] \in config.regions

\* The latest fetch returned the records of a response that carried data.
FetchedData == lastFetch.error.tag = "None" /\ lastFetch.climbs # <<>>
\* The positions at which the latest fetch returned the record with this uuid.
Emitted(uuid) ==
    {k \in DOMAIN lastFetch.climbs : lastFetch.climbs[k].uuid = uuid}
HasLat(md) == GetLat(md) # None

\* C12 (coordinate inheritance): of the records a fetch returns, each leaf
\* record of the response is emitted once; one that had no latitude under an
\* area with a latitude carries the area's latitude and longitude; one that
\* had a latitude of its own, 0 included, keeps its coordinates; one with
\* neither stays without coordinates.
C12_CoordinateInheritance ==
    FetchedData =>
        \A a \in Range(SourceAreas(lastFetch.key)) :
            \A n \in DOMAIN a.climbs :
                LET src == a.climbs[n] IN
                /\ Cardinality(Emitted(src.uuid)) = 1
                /\ \A k \in Emitted(src.uuid) :
                      LET out == lastFetch.climbs[k] IN
                      /\ (~HasLat(src.metadata) /\ HasLat(a.metadata)) =>
                            /\ GetLat(out.metadata) = GetLat(a.metadata)
                            /\ GetLng(out.metadata) = GetLng(a.metadata)
                      /\ HasLat(src.metadata) =>
                            /\ GetLat(out.metadata) = GetLat(src.metadata)
                            /\ GetLng(out.metadata) = GetLng(src.metadata)
                      /\ (~HasLat(src.metadata) /\ ~HasLat(a.metadata)) =>
                            /\ GetLat(out.metadata) = None
                            /\ GetLng(out.metadata) = None

\* The source's leaf records under the key of the latest fetch, as sent.
RECURSIVE SourceClimbs(_)
SourceClimbs(areas) ==
    IF areas = <<>> THEN <<>>
    ELSE Head(areas).climbs \o SourceClimbs(Tail(areas))

\* C13 (idempotent normalization): running the normalising loops a second
\* time, over the areas of a response whose records the first run has
\* normalised, yields exactly the records the fetch returned after the first
\* run: no field of any record changes.
C13_NormalizeIdempotent ==
    FetchedData =>
        Flatten(NormalizedAreas(SourceAreas(lastFetch.key))) = lastFetch.climbs

\* Witness of C13: a fetch whose normalisation filled the PartitionKey of one
\* record and the coordinates of another (one of them in place of a latitude
\* of 0), and left a third record as it was sent.
C13_Witness ==
    /\ FetchedData
    /\ LET sent == SourceClimbs(SourceAreas(lastFetch.key)) IN
       /\ Len(sent) = Len(lastFetch.climbs)
       /\ \E k \in DOMAIN sent :
             /\ sent[k].pathTokens = <<>>
             /\ lastFetch.climbs[k].pathTokens # <<>>
       /\ \E k \in DOMAIN sent :
             /\ GetLat(sent[k].metadata) = None
             /\ GetLat(lastFetch.climbs[k].metadata) # None
       /\ \E k \in DOMAIN sent :
             /\ GetLat(sent[k].metadata) = Some(0)
             /\ GetLat(lastFetch.climbs[k].metadata) # Some(0)
       /\ \E k \in DOMAIN sent : sent[k] = lastFetch.climbs[k]

\* C14 (temporary staging file cleanup): whenever export_to_parquet has been
\* left, by its return or by an exception raised at any of its steps, the
\* staged JSON file no longer exists.
C14_TempFileRemoved ==
    (pc = "exit" /\ exportInvoked) => ~tmpExists

\* The records of the accumulator fetched under one partition key, in order.
RecordsOf(key) == SelectSeq(all_climbs, LAMBDA x : x.uuid[1] = key)

\* The accumulator's records regrouped: country by country in the order of the
\* sequence cs of (areaName, uuid) pairs; key by key in the order of keys.
RECURSIVE GroupedByCountry(_)
GroupedByCountry(cs) ==
    IF cs = <<>> THEN <<>>
    ELSE ClimbsOf(Head(cs).areaName) \o GroupedByCountry(Tail(cs))
RECURSIVE GroupedByKey(_)
GroupedByKey(keys) ==
    IF keys = <<>> THEN <<>>
    ELSE RecordsOf(Head(keys)) \o GroupedByKey(Tail(keys))

\* C15 (stable output order): the accumulator is, between two countries and at
\* the end of the loop (it changes at no other moment), the
\* results of the countries in the order the root enumeration returned them;
\* the result of a country fetched whole is what its fetch returned, in
\* response order; the result of a split country is the results of its
\* sub-regions whose fetch succeeded, in the order fetch_subregions listed
\* them. The sequence is thus a function of the responses alone.
C15_StableOrder ==
    /\ pc \in {"country", "fetched"} =>
          /\ all_climbs = GroupedByCountry(countries)
          /\ \A m \in ListEntries :
                ClimbsOf(calls[m].key[2]) = GroupedByKey(calls[m].children)
          /\ \A c \in CountryNames :
                /\ RecordsOf(<<c>>) \in {<<>>, Flatten(SourceAreas(<<c>>))}
                /\ RecordsOf(<<c>>) # <<>> => wholeBranch[c] = "extend"
                /\ \A sub \in SubNames :
                      RecordsOf(<<c, sub>>) \in
                          {<<>>, Flatten(SourceAreas(<<c, sub>>))}
    /\ pc = "split_return" =>
          /\ \A k \in DOMAIN subResults : subResults[k].key = subregions[k]
          /\ \E m \in ListEntries : calls[m].children = subregions
          /\ climbs = ConcatSucceeded(subResults)

\* Witness of C15: the loop has ended over two countries that both added
\* records, the second through a split whose two sub-regions both did.
C15_Witness ==
    /\ pc = "fetched"
    /\ Len(countries) = 2
    /\ ClimbsOf(countries[1].areaName) # <<>>
    /\ \E m \in ListEntries :
          /\ calls[m].key = countries[2].uuid
          /\ Len(calls[m].children) = 2
          /\ RecordsOf(calls[m].children[1]) # <<>>
          /\ RecordsOf(calls[m].children[2]) # <<>>

\* The response is an oversize signal: a transport timeout, or an answer with
\* status 502 or 504.
OversizeSignal(r) ==
    r.t = "Timeout" \/ (r.t = "http" /\ r.status \in {502, 504})

\* C16 (split only on an oversize signal): fetch_region_climbs returns 502 or
\* 504 as its error exactly for a timeout and for the statuses 502 and 504;
\* the step that fetches a country not known as large goes on to the children
\* enumeration exactly when that error is 502 or 504, and otherwise moves to
\* the next country without any enumeration; the enumeration follows at once
\* and once; and no enumeration is ever made for a country not known as large
\* whose whole fetch did not end that way.
C16_SplitOnlyOnOversize ==
    /\ \A c \in CountryNames : \A r \in FetchResponses(<<c>>) :
          ~FetchRegionClimbs(r).raised =>
              (IsOversize(FetchRegionClimbs(r).error) <=> OversizeSignal(r))
    /\ [][
        /\ (/\ pc = "country"
            /\ i <= Len(countries)
            /\ Country \notin LARGE_COUNTRIES
            /\ pc' # "exit")
           => /\ lastFetch'.key = <<Country>>
              /\ listCalls' = listCalls
              /\ (pc' = "subregions") <=> IsOversize(lastFetch'.error)
              /\ pc' # "subregions" => (pc' = "country" /\ i' = i + 1)
        /\ pc = "subregions"
           => /\ lastFetch.key = <<Country>>
              /\ IsOversize(lastFetch.error)
              /\ listCalls' = listCalls (+) SetToBag({CountryUuid(Country)})
              /\ pc' # "subregions"
        /\ \A c \in CountryNames \ LARGE_COUNTRIES :
              /\ Count(CountryUuid(c), listCalls') > 0
                    => wholeBranch'[c] = "split"
              /\ (wholeBranch'[c] = "split" /\ pc' # "subregions")
                    => Count(CountryUuid(c), listCalls') = 1
      ]_vars

\* Witness of C16: the first country's whole fetch ended in a status that is
\* no oversize signal and no enumeration was made for it; the second's ended
\* in 502 and its children have been enumerated.
C16_Witness ==
    /\ pc = "subregion"
    /\ i = 2
    /\ wholeBranch[countries[1].areaName] = "warning"
    /\ Count(countries[1].uuid, listCalls) = 0
    /\ lastFetch.key = <<Country>>
    /\ lastFetch.error = StatusError(502)
    /\ Count(countries[2].uuid, listCalls) = 1

\* The children enumeration failed or found nothing: no answer, a status
\* other than 200, a body that is undecodable, carries errors or lacks the
\* data, or an empty list of children.
NoChildren(r) ==
    \/ r.t # "http"
    \/ r.status # 200
    \/ r.json \in {"invalid", "errors", "nodata"}
    \/ r.payload = <<>>

\* C17 (splitting with no children): fetch_subregions returns no key exactly
\* when the enumeration failed or found no child; the step in which it
\* returns none adds no record, prints the warning, keeps the run going and
\* moves to the next country; and no fetch is ever issued after such an
\* enumeration for that country.
C17_NoChildrenContinues ==
    /\ \A c \in CountryNames : \A r \in SubregionResponses :
          (FetchSubregions(c, r) = <<>>) <=> NoChildren(r)
    /\ [][
        /\ (listCalls' # listCalls /\ LastOf(calls').children = <<>>)
           => /\ LastOf(calls').op = "list"
              /\ all_climbs' = all_climbs
              /\ stdout' = "WARNING: Could not fetch sub-regions"
              /\ exitCode' = Running
              /\ pc' = "country"
              /\ i' = i + 1
              /\ countries' = countries
        /\ \A m \in ListEntries :
              calls[m].children = <<>> =>
                  /\ m = Len(calls)
                  /\ ClimbsOf(calls[m].key[2]) = <<>>
      ]_vars

\* Witness of C17: the first of two countries ended in 502, its children
\* enumeration returned nothing, and the loop stands at the second country
\* with the run going on.
C17_Witness ==
    /\ pc = "country"
    /\ Len(countries) = 2
    /\ i = 2
    /\ exitCode = Running
    /\ calls = << FetchCall(<<countries[1].areaName>>),
                  ListCall(countries[1].uuid, <<>>) >>
    /\ stdout = "WARNING: Could not fetch sub-regions"
    /\ all_climbs = <<>>

\* The loop over the countries is over and main goes on.
PastLoop ==
    pc \in {"fetched", "export", "export_load", "export_write", "export_report"}
\* The run ended because a region fetch raised.
FetchRaisedExit == pc = "exit" /\ traceback.func = "fetch_region_climbs"
\* The run ended because a region fetch got no answer at all (no response
\* and no timeout: a connection error).
NoAnswerExit == FetchRaisedExit /\ traceback.exc = "RequestException"

\* C18, as claimed: every call returning a response or hitting its deadline,
\* a run whose root enumeration succeeded never ends before the loop has gone
\* through all the countries enumerated.
C18_FullTraversal ==
    (pc = "exit" /\ rootResp.t # "none" /\ ~RootFailed /\ ~NoAnswerExit)
        => i > Len(countries)

\* Country c has been processed once: one whole fetch unless it is known as
\* large, and one children enumeration if it is large or the fetch said so.
ProcessedOnce(c) ==
    /\ Count(c.areaName, wholeCalls)
          = (IF c.areaName \in LARGE_COUNTRIES THEN 0 ELSE 1)
    /\ Count(c.uuid, listCalls)
          = (IF c.areaName \in LARGE_COUNTRIES \/ wholeBranch[c.areaName] = "split"
             THEN 1 ELSE 0)
NotProcessed(c) ==
    Count(c.areaName, wholeCalls) = 0 /\ Count(c.uuid, listCalls) = 0

\* The fetch phase is under way: the loop of fetch_all_climbs is running.
InFetchPhase == pc \in {"country", "subregions", "subregion", "split_return"}

\* An upper bound of the steps the fetch phase has left: the countries still
\* to come, each worth a whole fetch, an enumeration, a fetch per sub-region
\* and the return of the split, plus what is left of the country in hand.
StepsPerCountry == MaxChildren + 4
StepsLeft ==
    IF ~InFetchPhase THEN 0
    ELSE (Len(countries) + 1 - i) * StepsPerCountry
         + (CASE pc = "country" -> StepsPerCountry - 1
              [] pc = "subregions" -> StepsPerCountry - 2
              [] pc = "subregion" -> Len(subregions) - j + 2
              [] pc = "split_return" -> 1)

\* C18, what the code does guarantee (termination and traversal up to a
\* raising fetch): once the root enumeration
\* has succeeded the fetch phase ends: while it is under way a step is always
\* possible and every step lowers the number of steps left, so that under the
\* fairness of FairSpec the loop completes, unless a region fetch raises (no
\* answer, or a 200 answer whose body cannot be decoded) and ends the run. At
\* every moment the countries before the loop index have been processed
\* exactly once and those after it not at all, the index moves one country at
\* a time, and when the loop completes it is past the last country, whatever
\* statuses, timeouts and GraphQL errors earlier countries met.
C18_TerminatesAndTraverses ==
    /\ [](InFetchPhase => (StepsLeft > 0 /\ ENABLED Next))
    /\ [][InFetchPhase =>
             /\ StepsLeft' < StepsLeft
             /\ (InFetchPhase' \/ pc' = "fetched" \/ FetchRaisedExit') ]_vars
    /\ [](FetchRaisedExit =>
             traceback.exc \in {"RequestException", "JSONDecodeError"})
    /\ [](\A k \in DOMAIN countries :
             /\ k < i => ProcessedOnce(countries[k])
             /\ k > i => NotProcessed(countries[k]))
    /\ [](PastLoop => i = Len(countries) + 1)
    /\ [][ pc # "enumerate" =>
             /\ countries' = countries
             /\ i' \in {i, i + 1}
             /\ wholeCalls' # wholeCalls =>
                   wholeCalls' = wholeCalls (+) SetToBag({countries[i].areaName})
             /\ listCalls' # listCalls =>
                   listCalls' = listCalls (+) SetToBag({countries[i].uuid}) ]_vars

\* A case of C18_TerminatesAndTraverses: the loop has completed over two countries; the first was
\* split after a 502/504 and added nothing, the second's fetch failed hard.
C18_Witness ==
    /\ pc = "fetched"
    /\ Len(countries) = 2
    /\ i = 3
    /\ wholeBranch[countries[1].areaName] = "split"
    /\ ClimbsOf(countries[1].areaName) = <<>>
    /\ wholeBranch[countries[2].areaName] = "warning"
    /\ ProcessedOnce(countries[1])
    /\ ProcessedOnce(countries[2])

IsPrefix(s, t) == Len(s) <= Len(t) /\ SubSeq(t, 1, Len(s)) = s

\* The response makes the fetch end in Oversize or HardFailure: a timeout, a
\* status other than 200, or a 200 body with GraphQL errors (with or without
\* data beside them).
FailureResponse(r) ==
    \/ r.t = "Timeout"
    \/ r.t = "http" /\ (r.status # 200 \/ r.json = "errors")

\* C19 (the accumulator is append-only): every step leaves the records
\* accumulated so far in place, unchanged and in order, at the front of the
\* accumulator, and so does a step of a split with the country's climbs; a
\* fetch answered by a failure returns an error and no record, and the step
\* of a fetch that ends in Oversize or HardFailure, or that raises, leaves
\* both accumulators exactly as they were.
C19_AppendOnly ==
    /\ \A c \in CountryNames : \A r \in FetchResponses(<<c>>) :
          FailureResponse(r) =>
              /\ ~FetchRegionClimbs(r).raised
              /\ FetchRegionClimbs(r).error # NoError
              /\ FetchRegionClimbs(r).climbs = <<>>
    /\ [][
        /\ IsPrefix(all_climbs, all_climbs')
        /\ pc = "subregion" => (IsPrefix(climbs, climbs') \/ pc' = "exit")
        /\ (/\ calls' # calls
            /\ LastOf(calls').op = "fetch"
            /\ \/ pc' = "exit"
               \/ IsOversize(lastFetch'.error)
               \/ IsHardFailure(lastFetch'.error))
           => (all_climbs' = all_climbs /\ climbs' = climbs)
      ]_vars

\* Witness of C19: the first country's records are in the accumulator and
\* the fetch of the second has just ended in a GraphQL error, leaving them
\* alone.
C19_Witness ==
    /\ pc = "country"
    /\ i = 3
    /\ lastFetch.key = <<countries[2].areaName>>
    /\ lastFetch.error = GraphQLError
    /\ all_climbs # <<>>
    /\ all_climbs = ClimbsOf(countries[1].areaName)

====
